---------------------------- MODULE Spec2Model ----------------------------
(***************************************************************************)
(* Model of lib/gemlogconf.py: a logger whose threshold is set from a      *)
(* configuration file, once synchronously (set_log_level) and then by a    *)
(* daemon thread (log_level_thread) that polls the file's modification     *)
(* time every 250 ms and re-reads the file when it differs.                *)
(*                                                                         *)
(* Text is modelled as sequences of tokens.  A token is one of the single  *)
(* characters "=", "#", " ", "\t", "\n", or a maximal run of other         *)
(* characters (a word: "level", "DEBUG", "garbage", ...).  A line is a     *)
(* sequence of tokens, a file content a sequence of lines as readlines()   *)
(* returns them (each line keeps its "\n").                                *)
(***************************************************************************)
EXTENDS Integers, Sequences, FiniteSets, TLC

\* Modification times are drawn from 0..MaxMtime.
MaxMtime == 1

\* init_timertng_log is called at most MaxCalls times.
MaxCalls == 2

(***************************************************************************)
(* The severities and the parser                                           *)
(***************************************************************************)

\* gemlogconf.log_level: severity name -> logging level number.
log_level ==
    [DEBUG |-> 10, INFO |-> 20, WARNING |-> 30, ERROR |-> 40, CRITICAL |-> 50]

\* logging.NOTSET, the level of a logger nobody has configured, and the
\* level the root logger starts with (logging.WARNING), which a NOTSET
\* logger inherits.
Levels == {0} \cup {log_level[n] : n \in DOMAIN log_level}

getEffectiveLevel(lv) == IF lv = 0 THEN log_level["WARNING"] ELSE lv

\* Words whose text ends with "level": followed by "=" they contain the
\* substring "level=".
EndsWithLevel(t) == t \in {"level", "loglevel"}

\* cmnt_filt = re.compile(r'^[ ]*[^#]'), used with search(): the pattern
\* matches when, for some number k of leading blanks consumed by [ ]*
\* (the regex engine backtracks over k), the next character exists and is
\* not '#'.  Only " " is in the class [ ]; [^#] matches any other
\* character, a blank or the newline included.
cmnt_filt(l) ==
    \E k \in 0..(Len(l) - 1) :
        /\ \A i \in 1..k : l[i] = " "
        /\ l[k + 1] # "#"

\* level_filt = re.compile(r'level='), used with search(): the substring
\* "level=" occurs somewhere in the line.
level_filt(l) ==
    \E i \in 1..(Len(l) - 1) : EndsWithLevel(l[i]) /\ l[i + 1] = "="

\* str.strip(): leading and trailing whitespace removed.
IsSpace(t) == t \in {" ", "\t", "\n"}

strip(l) ==
    LET keep == {i \in 1..Len(l) : ~IsSpace(l[i])}
    IN  IF keep = {} THEN <<>>
        ELSE LET lo == CHOOSE i \in keep : \A j \in keep : i <= j
                 hi == CHOOSE i \in keep : \A j \in keep : j <= i
             IN  SubSeq(l, lo, hi)

\* l.split('=')[1]: the text between the first '=' and the second one (or
\* the end of the line when there is no second one).
split_1(l) ==
    LET eqs == {i \in 1..Len(l) : l[i] = "="}
        e1  == CHOOSE i \in eqs : \A j \in eqs : i <= j
        rest == {i \in eqs : i > e1}
        e2  == IF rest = {} THEN Len(l) + 1
               ELSE CHOOSE i \in rest : \A j \in rest : i <= j
    IN  SubSeq(l, e1 + 1, e2 - 1)

\* `level in log_level.keys()`: the candidate is exactly one severity name.
IsLevelName(cand) == Len(cand) = 1 /\ cand[1] \in DOMAIN log_level

\* [l.strip() for l in f.readlines() if cmnt_filt.search(l)]
RECURSIVE read_conf(_)
read_conf(ls) ==
    IF ls = <<>> THEN <<>>
    ELSE IF cmnt_filt(Head(ls))
         THEN <<strip(Head(ls))>> \o read_conf(Tail(ls))
         ELSE read_conf(Tail(ls))

\* Mutant of scan: the loop does not stop at the first line with "level=",
\* the last one decides.
RECURSIVE scan_last_wins(_)
scan_last_wins(conf) ==
    IF conf = <<>> THEN [kind |-> "missing", level |-> <<>>]
    ELSE LET later == scan_last_wins(Tail(conf))
         IN  IF later.kind # "missing" \/ ~level_filt(Head(conf)) THEN later
             ELSE LET level == split_1(Head(conf))
                  IN  IF IsLevelName(level)
                      THEN [kind |-> "recognized", level |-> level]
                      ELSE [kind |-> "invalid", level |-> level]

\* The for/else loop over conf_raw: lines without "level=" are skipped, the
\* first line with it decides and ends the loop; the else branch is taken
\* when the loop runs out of lines.
RECURSIVE scan(_)
scan(conf) ==
    IF conf = <<>> THEN [kind |-> "missing", level |-> <<>>]
    ELSE IF ~level_filt(Head(conf)) THEN scan(Tail(conf))
    ELSE LET level == split_1(Head(conf))
         IN  IF IsLevelName(level)
             THEN [kind |-> "recognized", level |-> level]
             ELSE [kind |-> "invalid", level |-> level]


(***************************************************************************)
(* The configuration file and the contents the operator may give it        *)
(***************************************************************************)

Directive(v) == <<"level", "=", v, "\n">>

\* File contents the operator writes: nothing, every severity, a value in
\* another case, comments (at column 0, indented by a blank, indented by a
\* tab) that hold a directive text, two directives, values with a suffix,
\* blanks around a directive, a key that ends with "level" and an
\* unterminated last line.
Contents ==
    { <<>>,
      <<Directive("DEBUG")>>,
      <<Directive("INFO")>>,
      <<Directive("WARNING")>>,
      <<Directive("ERROR")>>,
      <<Directive("CRITICAL")>>,
      <<Directive("error")>>,
      << <<"\n">>, <<"#", "level", "=", "CRITICAL", "\n">>,
         Directive("WARNING")>>,
      << <<"#", "level", "=", "CRITICAL", "\n">> >>,
      << <<" ", "#", "level", "=", "CRITICAL", "\n">>, Directive("WARNING")>>,
      << <<"\t", "#", "level", "=", "DEBUG", "\n">> >>,
      <<Directive("WARNING"), Directive("ERROR")>>,
      <<Directive("garbage"), Directive("ERROR")>>,
      << <<"level", "=", "INFO", "#", "comment", "\n">> >>,
      << <<"level", "=", "ERROR", "=", "x", "\n">> >>,
      << <<"level", "=", "ERROR", " ", "extra", "\n">> >>,
      << <<" ", "level", "=", "DEBUG", " ", "\n">> >>,
      << <<"loglevel", "=", "ERROR">> >> }

\* The file as the program sees it: absent, or present with a content, a
\* modification time and a permission to read it.
NoFile == [exists |-> FALSE]

FileStates ==
    {NoFile} \cup
    [exists : {TRUE}, content : Contents, mtime : 0..MaxMtime,
     readable : BOOLEAN]

VARIABLES
    file,       \* the configuration file (owned by the operator)
    monotone,   \* TRUE while every write has given the file a later time
    level,      \* logger.level, the threshold
    handlers,   \* TRUE once the rotating handler is attached to the logger
    mpc,        \* position of the thread that runs init_timertng_log
    m_lines,    \* set_log_level: the lines readlines() returned
    m_conf,     \* set_log_level: conf_raw
    m_log,      \* records set_log_level handed to the handler
    wpc,        \* position of the thread that runs log_level_thread
    mod_time,   \* log_level_thread: mod_time
    lines,      \* log_level_thread: the lines readlines() returned
    conf_raw,   \* log_level_thread: conf_raw
    iter,       \* what the current loop iteration of the thread has found
    outage,     \* TRUE from a failed access of the thread to its next apply
    w_log,      \* records the current loop iteration handed to the handler
    calls,      \* number of calls of init_timertng_log so far
    wpc2,       \* wpc2[k]: position of the thread that call k > 1 starts
    mod_time2,  \* mod_time2[k]: that thread's mod_time
    conf_raw2   \* conf_raw2[k]: that thread's conf_raw

vars == <<file, monotone, level, handlers, mpc, m_lines, m_conf, m_log,
          wpc, mod_time, lines, conf_raw, iter, outage, w_log,
          calls, wpc2, mod_time2, conf_raw2>>

fileVars == <<file, monotone>>
mainVars == <<mpc, m_lines, m_conf, m_log>>
threadVars == <<wpc, mod_time, lines, conf_raw, iter, outage, w_log>>
callVars == <<calls, wpc2, mod_time2, conf_raw2>>

\* Mutant of emit: a record at exactly the threshold is dropped.
emit_strict(lg, lv, levelno, msg, arg) ==
    IF handlers /\ levelno > getEffectiveLevel(lv)
    THEN Append(lg, [levelno |-> levelno, msg |-> msg, arg |-> arg])
    ELSE lg

\* Logger.log(): the record is handed to the handler when its level number
\* is at least the logger's effective level.
emit(lg, lv, levelno, msg, arg) ==
    IF handlers /\ levelno >= getEffectiveLevel(lv)
    THEN Append(lg, [levelno |-> levelno, msg |-> msg, arg |-> arg])
    ELSE lg

\* The three logger.error() calls of an except block.
emit_errors(lg, lv, msg) ==
    emit(emit(emit(lg, lv, log_level["ERROR"], msg, <<>>),
              lv, log_level["ERROR"], "exception", <<>>),
         lv, log_level["ERROR"], "retrying", <<>>)

Init ==
    /\ file \in FileStates
    /\ monotone = TRUE
    /\ level = 0
    /\ handlers = FALSE
    /\ mpc = "init"
    /\ m_lines = <<>>
    /\ m_conf = <<>>
    /\ m_log = <<>>
    /\ wpc = "idle"
    /\ mod_time = 0
    /\ lines = <<>>
    /\ conf_raw = <<>>
    /\ iter = "none"
    /\ outage = FALSE
    /\ w_log = <<>>
    /\ calls = 1
    /\ wpc2 = [k \in 2..MaxCalls |-> "idle"]
    /\ mod_time2 = [k \in 2..MaxCalls |-> 0]
    /\ conf_raw2 = [k \in 2..MaxCalls |-> <<>>]

(***************************************************************************)
(* The operator: edits, deletes, recreates the file, changes its mode      *)
(***************************************************************************)

\* The file is written (created when absent) with content c; its
\* modification time becomes t, which an operator can also set to the old
\* value or an earlier one (a copy that preserves times).
EnvWrite(c, t) ==
    /\ file' = [exists |-> TRUE, content |-> c, mtime |-> t,
                readable |-> IF file.exists THEN file.readable ELSE TRUE]
    /\ file' # file
    /\ monotone' = (monotone /\ file.exists /\ t > file.mtime)
    /\ UNCHANGED <<callVars, level, handlers, mainVars, threadVars>>

EnvDelete ==
    /\ file.exists
    /\ file' = NoFile
    /\ monotone' = FALSE
    /\ UNCHANGED <<callVars, level, handlers, mainVars, threadVars>>

\* chmod: the content can no longer (or can again) be read; the
\* modification time is not touched.
EnvChmod ==
    /\ file.exists
    /\ file' = [file EXCEPT !.readable = ~file.readable]
    /\ UNCHANGED monotone
    /\ UNCHANGED <<callVars, level, handlers, mainVars, threadVars>>

(***************************************************************************)
(* init_timertng_log and set_log_level (the calling thread)                *)
(***************************************************************************)

\* init_timertng_log up to the call of set_log_level: the logger is
\* obtained and the rotating handler attached.
M_AddHandler ==
    /\ mpc = "init"
    /\ handlers' = TRUE
    /\ mpc' = "set_info"
    /\ UNCHANGED <<callVars, fileVars, level, m_lines, m_conf, m_log, threadVars>>

\* Mutant of M_SetInfo: the level is not set on entry.
M_SetInfo_skipped ==
    /\ mpc = "set_info"
    /\ mpc' = "open"
    /\ UNCHANGED <<callVars, fileVars, level, handlers, m_lines, m_conf, m_log,
                   threadVars>>

\* set_log_level starts by setting the level to INFO.
M_SetInfo ==
    /\ mpc = "set_info"
    /\ level' = log_level["INFO"]
    /\ mpc' = "open"
    /\ UNCHANGED <<callVars, fileVars, handlers, m_lines, m_conf, m_log, threadVars>>

\* The file is opened and read, comment lines filtered out.
M_Open ==
    /\ mpc = "open"
    /\ file.exists /\ file.readable
    /\ m_lines' = file.content
    /\ m_conf' = read_conf(file.content)
    /\ mpc' = "scan"
    /\ UNCHANGED <<callVars, fileVars, level, handlers, m_log, threadVars>>

\* Mutant of M_OpenFails: the exception is swallowed and set_log_level goes
\* on with no lines.
M_OpenFails_goes_on ==
    /\ mpc = "open"
    /\ ~(file.exists /\ file.readable)
    /\ mpc' = "scan"
    /\ UNCHANGED <<callVars, fileVars, level, handlers, m_lines, m_conf, m_log, threadVars>>

\* open() or readlines() raises: sys.exit(e).  SystemExit leaves
\* init_timertng_log, so no thread is started and nothing is returned.
M_OpenFails ==
    /\ mpc = "open"
    /\ ~(file.exists /\ file.readable)
    /\ mpc' = "exited"
    /\ UNCHANGED <<callVars, fileVars, level, handlers, m_lines, m_conf, m_log, threadVars>>

\* The first line with "level=" holds a severity name: setLevel.
M_SetLevel ==
    /\ mpc = "scan"
    /\ scan(m_conf).kind = "recognized"
    /\ level' = log_level[scan(m_conf).level[1]]
    /\ mpc' = "info"
    /\ UNCHANGED <<callVars, fileVars, handlers, m_lines, m_conf, m_log, threadVars>>

\* logger.info("Log level started as: ...")
M_Info ==
    /\ mpc = "info"
    /\ m_log' = emit(m_log, level, log_level["INFO"], "started_as",
                     scan(m_conf).level)
    /\ mpc' = "spawn"
    /\ UNCHANGED <<callVars, fileVars, level, handlers, m_lines, m_conf, threadVars>>

\* The first line with "level=" holds something else: two critical
\* records, the level stays at the INFO set on entry.
M_BadOption ==
    /\ mpc = "scan"
    /\ scan(m_conf).kind = "invalid"
    /\ m_log' = emit(emit(m_log, level, log_level["CRITICAL"], "bad_option",
                          scan(m_conf).level),
                     level, log_level["CRITICAL"], "set_to_info", <<>>)
    /\ mpc' = "spawn"
    /\ UNCHANGED <<callVars, fileVars, level, handlers, m_lines, m_conf, threadVars>>

\* No line with "level=": two critical records.
M_NoLevel ==
    /\ mpc = "scan"
    /\ scan(m_conf).kind = "missing"
    /\ m_log' = emit(emit(m_log, level, log_level["CRITICAL"], "no_level",
                          <<>>),
                     level, log_level["CRITICAL"], "set_to_info", <<>>)
    /\ mpc' = "spawn"
    /\ UNCHANGED <<callVars, fileVars, level, handlers, m_lines, m_conf, threadVars>>

\* set_log_level returns (its locals are gone) and the daemon thread is
\* started.
M_Spawn ==
    /\ mpc = "spawn"
    /\ calls = 1
    /\ wpc' = "t0"
    /\ mpc' = "return"
    /\ m_lines' = <<>>
    /\ m_conf' = <<>>
    /\ m_log' = <<>>
    /\ UNCHANGED <<callVars, fileVars, level, handlers, mod_time, lines, conf_raw, iter,
                   w_log,
                   outage>>

\* The logger is returned to the application.
M_Return ==
    /\ mpc = "return"
    /\ mpc' = "returned"
    /\ UNCHANGED <<callVars, fileVars, level, handlers, m_lines, m_conf, m_log, threadVars>>

(***************************************************************************)
(* log_level_thread (the daemon thread)                                    *)
(***************************************************************************)

\* Mutant of W_GetMtime: the thread also applies the file when it starts.
W_GetMtime_applies ==
    /\ wpc = "t0"
    /\ file.exists
    /\ mod_time' = file.mtime
    /\ level' = IF scan(read_conf(file.content)).kind = "recognized"
                THEN log_level[scan(read_conf(file.content)).level[1]]
                ELSE log_level["INFO"]
    /\ wpc' = "poll"
    /\ UNCHANGED <<callVars, fileVars, handlers, mainVars, lines, conf_raw, iter,
                   w_log, outage>>

\* mod_time = os.path.getmtime(config_file), before the loop and outside
\* any try.
W_GetMtime ==
    /\ wpc = "t0"
    /\ file.exists
    /\ mod_time' = file.mtime
    /\ wpc' = "poll"
    /\ UNCHANGED <<callVars, fileVars, level, handlers, mainVars, lines, conf_raw, iter,
                   w_log,
                   outage>>

\* The same call when the file is absent: the exception is not caught and
\* ends the thread.
W_GetMtimeRaises ==
    /\ wpc = "t0"
    /\ ~file.exists
    /\ wpc' = "dead"
    /\ UNCHANGED <<callVars, fileVars, level, handlers, mainVars, mod_time, lines, conf_raw,
                   iter, w_log,
                   outage>>

\* One iteration begins: sleep, then getmtime raises; three error records,
\* continue.  (conf_raw of the previous iteration is not read again before
\* it is assigned; the model forgets it here.)
W_PollError ==
    /\ wpc = "poll"
    /\ ~file.exists
    /\ w_log' = emit_errors(<<>>, level, "mtime_conflict")
    /\ iter' = "mtime_error"
    /\ lines' = <<>>
    /\ conf_raw' = <<>>
    /\ outage' = TRUE
    /\ UNCHANGED <<callVars, fileVars, level, handlers, mainVars, wpc, mod_time>>

\* Mutant of W_PollSame: a time earlier than mod_time counts as unchanged.
W_PollSame_not_later ==
    /\ wpc = "poll"
    /\ file.exists
    /\ file.mtime - mod_time <= 0
    /\ w_log' = <<>>
    /\ iter' = "no_change"
    /\ lines' = <<>>
    /\ conf_raw' = <<>>
    /\ outage' = (outage /\ iter # "applied")
    /\ UNCHANGED <<callVars, fileVars, level, handlers, mainVars, wpc, mod_time>>

\* Mutant of W_PollSame: the file is re-read although its time is unchanged.
W_PollSame_reloads ==
    /\ wpc = "poll"
    /\ file.exists
    /\ file.mtime - mod_time = 0
    /\ w_log' = <<>>
    /\ iter' = "changed"
    /\ lines' = <<>>
    /\ conf_raw' = <<>>
    /\ outage' = (outage /\ iter # "applied")
    /\ wpc' = "open"
    /\ UNCHANGED <<callVars, fileVars, level, handlers, mainVars, mod_time>>

\* sleep, getmtime, curr_mtime - mod_time is 0: continue.
W_PollSame ==
    /\ wpc = "poll"
    /\ file.exists
    /\ file.mtime - mod_time = 0
    /\ w_log' = <<>>
    /\ iter' = "no_change"
    /\ lines' = <<>>
    /\ conf_raw' = <<>>
    /\ outage' = (outage /\ iter # "applied")
    /\ UNCHANGED <<callVars, fileVars, level, handlers, mainVars, wpc, mod_time>>

\* Mutant of W_PollChanged: mod_time is not assigned before the read.
W_PollChanged_keeps_time ==
    /\ wpc = "poll"
    /\ file.exists
    /\ file.mtime - mod_time # 0
    /\ w_log' = <<>>
    /\ iter' = "changed"
    /\ lines' = <<>>
    /\ conf_raw' = <<>>
    /\ wpc' = "open"
    /\ outage' = (outage /\ iter # "applied")
    /\ UNCHANGED <<callVars, fileVars, level, handlers, mainVars, mod_time>>

\* sleep, getmtime, the difference is not 0: mod_time = curr_mtime.
W_PollChanged ==
    /\ wpc = "poll"
    /\ file.exists
    /\ file.mtime - mod_time # 0
    /\ mod_time' = file.mtime
    /\ w_log' = <<>>
    /\ iter' = "changed"
    /\ lines' = <<>>
    /\ conf_raw' = <<>>
    /\ wpc' = "open"
    /\ outage' = (outage /\ iter # "applied")
    /\ UNCHANGED <<callVars, fileVars, level, handlers, mainVars>>

\* The file is opened and read, comment lines filtered out.
W_Open ==
    /\ wpc = "open"
    /\ file.exists /\ file.readable
    /\ lines' = file.content
    /\ conf_raw' = read_conf(file.content)
    /\ iter' = "read"
    /\ wpc' = "scan"
    /\ UNCHANGED <<callVars, fileVars, level, handlers, mainVars, mod_time, w_log,
                   outage>>

\* open() or readlines() raises: three error records, continue.
W_OpenFails ==
    /\ wpc = "open"
    /\ ~(file.exists /\ file.readable)
    /\ w_log' = emit_errors(w_log, level, "read_conflict")
    /\ iter' = "read_error"
    /\ wpc' = "poll"
    /\ outage' = TRUE
    /\ UNCHANGED <<callVars, fileVars, level, handlers, mainVars, mod_time, lines, conf_raw>>

\* Mutant of W_SetLevel: the level is first reset to INFO, as set_log_level
\* does on entry.
W_SetLevel_resets_first ==
    /\ wpc = "scan"
    /\ scan(conf_raw).kind = "recognized"
    /\ level' = log_level["INFO"]
    /\ wpc' = "info"
    /\ UNCHANGED <<callVars, fileVars, handlers, mainVars, mod_time, lines, conf_raw, iter,
                   w_log, outage>>

\* The first line with "level=" holds a severity name: setLevel.
W_SetLevel ==
    /\ wpc = "scan"
    /\ scan(conf_raw).kind = "recognized"
    /\ level' = log_level[scan(conf_raw).level[1]]
    /\ wpc' = "info"
    /\ UNCHANGED <<callVars, fileVars, handlers, mainVars, mod_time, lines, conf_raw, iter,
                   w_log,
                   outage>>

\* logger.info("Log level changed to: ...")
W_Info ==
    /\ wpc = "info"
    /\ w_log' = emit(w_log, level, log_level["INFO"], "changed_to",
                     scan(conf_raw).level)
    /\ iter' = "applied"
    /\ wpc' = "poll"
    /\ UNCHANGED <<callVars, fileVars, level, handlers, mainVars, mod_time, lines, conf_raw,
                   outage>>

\* The first line with "level=" holds something else:
\* logger.critical("Bad option ..."),
W_BadOption ==
    /\ wpc = "scan"
    /\ scan(conf_raw).kind = "invalid"
    /\ w_log' = emit(w_log, level, log_level["CRITICAL"], "bad_option",
                     scan(conf_raw).level)
    /\ wpc' = "bad_set"
    /\ UNCHANGED <<callVars, fileVars, level, handlers, mainVars, mod_time, lines, conf_raw,
                   iter,
                   outage>>

\* then logger.setLevel(log_level['INFO']),
W_BadSetLevel ==
    /\ wpc = "bad_set"
    /\ level' = log_level["INFO"]
    /\ wpc' = "bad_msg"
    /\ UNCHANGED <<callVars, fileVars, handlers, mainVars, mod_time, lines, conf_raw, iter,
                   w_log,
                   outage>>

\* then logger.critical("Level has been set to INFO").
W_BadMsg ==
    /\ wpc = "bad_msg"
    /\ w_log' = emit(w_log, level, log_level["CRITICAL"], "set_to_info", <<>>)
    /\ iter' = "applied"
    /\ wpc' = "poll"
    /\ UNCHANGED <<callVars, fileVars, level, handlers, mainVars, mod_time, lines, conf_raw,
                   outage>>

\* No line with "level=" (the else of the for loop):
\* logger.critical("There is no level configuration ..."),
W_NoLevel ==
    /\ wpc = "scan"
    /\ scan(conf_raw).kind = "missing"
    /\ w_log' = emit(w_log, level, log_level["CRITICAL"], "no_level", <<>>)
    /\ wpc' = "miss_set"
    /\ UNCHANGED <<callVars, fileVars, level, handlers, mainVars, mod_time, lines, conf_raw,
                   iter,
                   outage>>

\* then logger.setLevel(log_level['INFO']),
W_NoLevelSetLevel ==
    /\ wpc = "miss_set"
    /\ level' = log_level["INFO"]
    /\ wpc' = "miss_msg"
    /\ UNCHANGED <<callVars, fileVars, handlers, mainVars, mod_time, lines, conf_raw, iter,
                   w_log,
                   outage>>

\* then logger.critical("Level has beem set to INFO").
W_NoLevelMsg ==
    /\ wpc = "miss_msg"
    /\ w_log' = emit(w_log, level, log_level["CRITICAL"], "set_to_info", <<>>)
    /\ iter' = "applied"
    /\ wpc' = "poll"
    /\ UNCHANGED <<callVars, fileVars, level, handlers, mainVars, mod_time, lines, conf_raw,
                   outage>>

(***************************************************************************)
(* Later calls of init_timertng_log in the same process                    *)
(***************************************************************************)

\* The application calls init_timertng_log again.  logging.getLogger(__name__)
\* returns the logger of the first call (one logger per name), so the call
\* works on the same level; M_AddHandler attaches one more handler to it.
M_CallAgain ==
    /\ mpc = "returned"
    /\ calls < MaxCalls
    /\ calls' = calls + 1
    /\ mpc' = "init"
    /\ UNCHANGED <<fileVars, level, handlers, m_lines, m_conf, m_log,
                   threadVars, wpc2, mod_time2, conf_raw2>>

\* set_log_level of a later call returns and one more daemon thread is
\* started; the threads of the earlier calls go on.
M_SpawnAgain ==
    /\ mpc = "spawn"
    /\ calls > 1
    /\ wpc2' = [wpc2 EXCEPT ![calls] = "t0"]
    /\ mpc' = "return"
    /\ m_lines' = <<>>
    /\ m_conf' = <<>>
    /\ m_log' = <<>>
    /\ UNCHANGED <<fileVars, level, handlers, threadVars, calls, mod_time2,
                   conf_raw2>>

\* log_level_thread as the thread of call k runs it.  The records it hands
\* to the handlers are not kept, so a step that only logs leaves the state
\* but for the position.

\* mod_time = os.path.getmtime(config_file) before the loop.
V_GetMtime(k) ==
    /\ wpc2[k] = "t0"
    /\ file.exists
    /\ mod_time2' = [mod_time2 EXCEPT ![k] = file.mtime]
    /\ wpc2' = [wpc2 EXCEPT ![k] = "poll"]
    /\ UNCHANGED <<fileVars, level, handlers, mainVars, threadVars, calls,
                   conf_raw2>>

\* The same call when the file is absent ends the thread.
V_GetMtimeRaises(k) ==
    /\ wpc2[k] = "t0"
    /\ ~file.exists
    /\ wpc2' = [wpc2 EXCEPT ![k] = "dead"]
    /\ UNCHANGED <<fileVars, level, handlers, mainVars, threadVars, calls,
                   mod_time2, conf_raw2>>

\* sleep, getmtime raises: error records, continue.
V_PollError(k) ==
    /\ wpc2[k] = "poll"
    /\ ~file.exists
    /\ UNCHANGED vars

\* sleep, getmtime, the difference is 0: continue.
V_PollSame(k) ==
    /\ wpc2[k] = "poll"
    /\ file.exists
    /\ file.mtime - mod_time2[k] = 0
    /\ UNCHANGED vars

\* sleep, getmtime, the difference is not 0: mod_time = curr_mtime.
V_PollChanged(k) ==
    /\ wpc2[k] = "poll"
    /\ file.exists
    /\ file.mtime - mod_time2[k] # 0
    /\ mod_time2' = [mod_time2 EXCEPT ![k] = file.mtime]
    /\ wpc2' = [wpc2 EXCEPT ![k] = "open"]
    /\ UNCHANGED <<fileVars, level, handlers, mainVars, threadVars, calls,
                   conf_raw2>>

\* The file is opened and read, comment lines filtered out.
V_Open(k) ==
    /\ wpc2[k] = "open"
    /\ file.exists /\ file.readable
    /\ conf_raw2' = [conf_raw2 EXCEPT ![k] = read_conf(file.content)]
    /\ wpc2' = [wpc2 EXCEPT ![k] = "scan"]
    /\ UNCHANGED <<fileVars, level, handlers, mainVars, threadVars, calls,
                   mod_time2>>

\* open() or readlines() raises: error records, continue.
V_OpenFails(k) ==
    /\ wpc2[k] = "open"
    /\ ~(file.exists /\ file.readable)
    /\ wpc2' = [wpc2 EXCEPT ![k] = "poll"]
    /\ UNCHANGED <<fileVars, level, handlers, mainVars, threadVars, calls,
                   mod_time2, conf_raw2>>

\* A severity name: setLevel, the info record, break.
V_SetLevel(k) ==
    /\ wpc2[k] = "scan"
    /\ scan(conf_raw2[k]).kind = "recognized"
    /\ level' = log_level[scan(conf_raw2[k]).level[1]]
    /\ conf_raw2' = [conf_raw2 EXCEPT ![k] = <<>>]
    /\ wpc2' = [wpc2 EXCEPT ![k] = "poll"]
    /\ UNCHANGED <<fileVars, handlers, mainVars, threadVars, calls, mod_time2>>

\* Something else after "level=": critical, setLevel(INFO), critical, break.
V_BadOption(k) ==
    /\ wpc2[k] = "scan"
    /\ scan(conf_raw2[k]).kind = "invalid"
    /\ level' = log_level["INFO"]
    /\ conf_raw2' = [conf_raw2 EXCEPT ![k] = <<>>]
    /\ wpc2' = [wpc2 EXCEPT ![k] = "poll"]
    /\ UNCHANGED <<fileVars, handlers, mainVars, threadVars, calls, mod_time2>>

\* No line with "level=" (the else of the for): critical, setLevel(INFO),
\* critical.
V_NoLevel(k) ==
    /\ wpc2[k] = "scan"
    /\ scan(conf_raw2[k]).kind = "missing"
    /\ level' = log_level["INFO"]
    /\ conf_raw2' = [conf_raw2 EXCEPT ![k] = <<>>]
    /\ wpc2' = [wpc2 EXCEPT ![k] = "poll"]
    /\ UNCHANGED <<fileVars, handlers, mainVars, threadVars, calls, mod_time2>>

(***************************************************************************)
(* The system                                                              *)
(***************************************************************************)

Env ==
    \/ \E c \in Contents, t \in 0..MaxMtime : EnvWrite(c, t)
    \/ EnvDelete
    \/ EnvChmod

Main ==
    \/ M_AddHandler \/ M_SetInfo \/ M_Open \/ M_OpenFails
    \/ M_SetLevel \/ M_Info \/ M_BadOption \/ M_NoLevel
    \/ M_Spawn \/ M_Return

Thread ==
    \/ W_GetMtime \/ W_GetMtimeRaises
    \/ W_PollError \/ W_PollSame \/ W_PollChanged
    \/ W_Open \/ W_OpenFails
    \/ W_SetLevel \/ W_Info
    \/ W_BadOption \/ W_BadSetLevel \/ W_BadMsg
    \/ W_NoLevel \/ W_NoLevelSetLevel \/ W_NoLevelMsg

Next == Env \/ Main \/ Thread

Spec == Init /\ [][Next]_vars

\* The program when the application may call init_timertng_log again, with
\* an operator who writes three contents (a severity, an unknown value, no
\* directive) and deletes the file.
CallContents == {<<Directive("DEBUG")>>, <<Directive("error")>>, <<>>}

MainAgain == M_CallAgain \/ M_SpawnAgain

ThreadAgain ==
    \E k \in 2..MaxCalls :
        \/ V_GetMtime(k) \/ V_GetMtimeRaises(k)
        \/ V_PollError(k) \/ V_PollSame(k) \/ V_PollChanged(k)
        \/ V_Open(k) \/ V_OpenFails(k)
        \/ V_SetLevel(k) \/ V_BadOption(k) \/ V_NoLevel(k)

EnvCalls ==
    \/ \E c \in CallContents, t \in 0..MaxMtime : EnvWrite(c, t)
    \/ EnvDelete

InitCalls ==
    /\ Init
    /\ file.exists => (file.content \in CallContents /\ file.readable)

NextCalls == EnvCalls \/ Main \/ MainAgain \/ Thread \/ ThreadAgain

SpecCalls == InitCalls /\ [][NextCalls]_vars

TypeOK ==
    /\ file \in FileStates
    /\ level \in Levels
    /\ handlers \in BOOLEAN
    /\ mpc \in {"init", "set_info", "open", "scan", "info", "spawn",
                "return", "returned", "exited"}
    /\ wpc \in {"idle", "t0", "poll", "open", "scan", "info", "bad_set",
                "bad_msg", "miss_set", "miss_msg", "dead"}
    /\ mod_time \in 0..MaxMtime
    /\ iter \in {"none", "mtime_error", "no_change", "changed", "read",
                 "read_error", "applied"}
    /\ outage \in BOOLEAN
    /\ monotone \in BOOLEAN
    /\ calls \in 1..MaxCalls
    /\ wpc2 \in [2..MaxCalls -> {"idle", "t0", "poll", "open", "scan", "dead"}]
    /\ mod_time2 \in [2..MaxCalls -> 0..MaxMtime]

(***************************************************************************)
(* The file format as the specification words it                           *)
(***************************************************************************)

\* A comment line: after leading whitespace, the first character is '#'.
SpecIsComment(l) ==
    LET body == {i \in 1..Len(l) : l[i] \notin {" ", "\t"}}
    IN  body # {} /\ l[CHOOSE i \in body : \A j \in body : i <= j] = "#"

\* A directive: a line that is no comment and holds "level=".
SpecIsDirective(l) == ~SpecIsComment(l) /\ level_filt(l)

SpecDirectives(ls) == SelectSeq(ls, SpecIsDirective)

\* The value of a directive: everything after the line's first '=' (blanks
\* around the line are not counted as part of it).
AfterFirstEq(l) ==
    LET eqs == {i \in 1..Len(l) : l[i] = "="}
        e1  == CHOOSE i \in eqs : \A j \in eqs : i <= j
    IN  SubSeq(l, e1 + 1, Len(l))

SpecValue(l) == AfterFirstEq(strip(l))

\* The parse result the specification gives a content.
SpecParse(ls) ==
    IF SpecDirectives(ls) = <<>> THEN [kind |-> "missing", level |-> <<>>]
    ELSE LET v == SpecValue(Head(SpecDirectives(ls)))
         IN  IF IsLevelName(v) THEN [kind |-> "recognized", level |-> v]
             ELSE [kind |-> "invalid", level |-> v]

\* The threshold a parse result stands for.
Outcome(r) ==
    IF r.kind = "recognized" THEN log_level[r.level[1]] ELSE log_level["INFO"]

\* The thread has completed an iteration in which it re-read the file and
\* applied what it found; set_log_level has applied what it read.
ReloadDone == wpc = "poll" /\ iter = "applied"
StartupDone == mpc = "spawn"

Has(lg, levelno, msg) ==
    \E i \in 1..Len(lg) : lg[i].levelno = levelno /\ lg[i].msg = msg

Mentions(lg, msg) == \E i \in 1..Len(lg) : lg[i].msg = msg

(***************************************************************************)
(* Claims                                                                  *)
(***************************************************************************)

\* C1: when the thread completes an iteration that re-read a file whose
\* first directive is level=S, the threshold is S, for every severity S and
\* every threshold before.
C1_ReloadSetsSeverity ==
    (ReloadDone /\ SpecParse(lines).kind = "recognized")
        => level = Outcome(SpecParse(lines))

\* C2: when a file that was read has a first directive whose value is no
\* severity name, or has no directive, the threshold after the apply is
\* INFO, at startup and on every reload.
C2_InvalidOrMissingGivesInfo ==
    /\ (ReloadDone /\ SpecParse(lines).kind # "recognized")
           => level = log_level["INFO"]
    /\ (StartupDone /\ SpecParse(m_lines).kind # "recognized")
           => level = log_level["INFO"]

\* What the code's own scan found in the lines an apply kept.
WFound == scan(conf_raw)
MFound == scan(m_conf)

\* C3: whenever the validation fails, at startup or on a reload, a CRITICAL
\* record reaches the handler whatever the threshold is when it is logged;
\* the record for an invalid value is another one than the record for a
\* missing directive; both cases end with the threshold at INFO.
C3_ValidationFailureIsLogged ==
    /\ wpc = "bad_set" => Has(w_log, log_level["CRITICAL"], "bad_option")
    /\ wpc = "miss_set" => Has(w_log, log_level["CRITICAL"], "no_level")
    /\ (ReloadDone /\ WFound.kind = "invalid") =>
           /\ Has(w_log, log_level["CRITICAL"], "bad_option")
           /\ ~Mentions(w_log, "no_level")
           /\ level = log_level["INFO"]
    /\ (ReloadDone /\ WFound.kind = "missing") =>
           /\ Has(w_log, log_level["CRITICAL"], "no_level")
           /\ ~Mentions(w_log, "bad_option")
           /\ level = log_level["INFO"]
    /\ (StartupDone /\ MFound.kind = "invalid") =>
           /\ Has(m_log, log_level["CRITICAL"], "bad_option")
           /\ ~Mentions(m_log, "no_level")
           /\ level = log_level["INFO"]
    /\ (StartupDone /\ MFound.kind = "missing") =>
           /\ Has(m_log, log_level["CRITICAL"], "no_level")
           /\ ~Mentions(m_log, "bad_option")
           /\ level = log_level["INFO"]

\* C3 witnesses: an invalid value is being reported by the thread while the
\* threshold is CRITICAL, and the record is there.
C3_Witness ==
    /\ wpc = "bad_set"
    /\ level = log_level["CRITICAL"]
    /\ Has(w_log, log_level["CRITICAL"], "bad_option")

\* C4: a line whose first character after leading blanks or tabs is '#' is
\* excluded: the threshold an apply leaves is the one the first directive
\* outside such lines gives (INFO, with the record for a missing directive,
\* when there is none).  Stated with the code's own reading of a directive
\* line, applied to the lines that are no comments.
NoComments(ls) == SelectSeq(ls, LAMBDA l : ~SpecIsComment(l))

C4_CommentsAreExcluded ==
    /\ ReloadDone =>
           /\ level = Outcome(scan(read_conf(NoComments(lines))))
           /\ scan(read_conf(NoComments(lines))).kind = "missing"
                  => Mentions(w_log, "no_level")
    /\ StartupDone =>
           /\ level = Outcome(scan(read_conf(NoComments(m_lines))))
           /\ scan(read_conf(NoComments(m_lines))).kind = "missing"
                  => Mentions(m_log, "no_level")

\* The lines an apply kept that hold "level=", and the first of them read
\* alone.
Matching(conf) == SelectSeq(conf, level_filt)

FirstAlone(conf) ==
    LET l == Head(Matching(conf))
        v == split_1(l)
    IN  IF IsLevelName(v) THEN [kind |-> "recognized", level |-> v]
        ELSE [kind |-> "invalid", level |-> v]

\* Every record of lg is about the value v or about the fallback to INFO.
OnlyAbout(lg, v) ==
    \A i \in 1..Len(lg) : lg[i].arg = v \/ lg[i].msg = "set_to_info"

\* C5: when the lines an apply kept hold two or more lines with "level=",
\* the first alone decides: the threshold is its severity when its value is
\* a severity name and INFO when it is not, and no record is about a later
\* line.
C5_FirstDirectiveWins ==
    /\ (ReloadDone /\ Len(Matching(conf_raw)) >= 2) =>
           /\ level = Outcome(FirstAlone(conf_raw))
           /\ OnlyAbout(w_log, FirstAlone(conf_raw).level)
           /\ Len(w_log) <= 2
    /\ (StartupDone /\ Len(Matching(m_conf)) >= 2) =>
           /\ level = Outcome(FirstAlone(m_conf))
           /\ OnlyAbout(m_log, FirstAlone(m_conf).level)
           /\ Len(m_log) <= 2

\* C5 witnesses: level=WARNING then level=ERROR was reloaded, the threshold
\* is WARNING; level=garbage then level=ERROR was read at startup, the
\* threshold is INFO.
C5_Witness ==
    /\ ReloadDone
    /\ lines = <<Directive("WARNING"), Directive("ERROR")>>
    /\ level = log_level["WARNING"]

C5_WitnessInvalidFirst ==
    /\ StartupDone
    /\ m_lines = <<Directive("garbage"), Directive("ERROR")>>
    /\ level = log_level["INFO"]

\* C6: the value is everything after the first '=' of the first kept line
\* with "level="; when that whole text is not exactly a severity name the
\* result is "invalid" and the threshold INFO.
WholeValue(conf) == AfterFirstEq(Head(Matching(conf)))

C6_WholeValueIsCompared ==
    /\ (ReloadDone /\ Matching(conf_raw) # <<>>
            /\ ~IsLevelName(WholeValue(conf_raw))) =>
           /\ level = log_level["INFO"]
           /\ Mentions(w_log, "bad_option")
    /\ (StartupDone /\ Matching(m_conf) # <<>>
            /\ ~IsLevelName(WholeValue(m_conf))) =>
           /\ level = log_level["INFO"]
           /\ Mentions(m_log, "bad_option")

\* A step of the thread from the top of its loop, the operator and the
\* calling thread standing still.
ThreadPolls == wpc = "poll" /\ file' = file /\ mpc' = mpc

\* C7: an iteration that reads a modification time equal to mod_time reads
\* and parses nothing, writes no threshold, hands no record to the handler
\* and leaves mod_time as it is.
C7_UnchangedMtimeDoesNothing ==
    [][(ThreadPolls /\ file.exists /\ file.mtime = mod_time) =>
           /\ level' = level
           /\ mod_time' = mod_time
           /\ w_log' = <<>>
           /\ lines' = <<>> /\ conf_raw' = <<>>
           /\ iter' = "no_change"
           /\ wpc' = "poll"]_vars

\* C7 witness: an iteration found the time unchanged while the file holds
\* another directive than the one in force (rewritten with its old time).
C7_Witness ==
    /\ wpc = "poll" /\ iter = "no_change"
    /\ file.exists /\ file.readable /\ file.mtime = mod_time
    /\ file.content = <<Directive("ERROR")>>
    /\ level = log_level["DEBUG"]

\* C8: while the file is missing or cannot be read, every iteration leaves
\* the threshold as it was and the thread in its loop; and the first apply
\* after such a failure, of a file whose first directive is level=S, leaves
\* the threshold at S.
C8_OutageKeepsLevelThenRecovers ==
    /\ [][(ThreadPolls /\ ~file.exists) =>
              (level' = level /\ wpc' = "poll")]_vars
    /\ [][(wpc = "open" /\ file' = file /\ mpc' = mpc
              /\ ~(file.exists /\ file.readable)) =>
              (level' = level /\ wpc' = "poll")]_vars
    /\ []((ReloadDone /\ outage /\ SpecParse(lines).kind = "recognized")
              => level = Outcome(SpecParse(lines)))

\* C9: once set_log_level has read the file, the thread never ends, whatever
\* the operator does to the file and whenever.
C9_ThreadNeverEnds == wpc # "dead"

\* C10: when the file cannot be opened or read at startup the process is
\* ended by sys.exit: no thread is started and nothing is returned; nothing
\* else in the file ends the process (an invalid or a missing directive
\* leads on to the start of the thread).
C10_UnreadableAtStartupExits ==
    /\ [](mpc = "exited" => wpc = "idle")
    /\ [][mpc = "exited" => mpc' = "exited"]_vars
    /\ [][(mpc = "open" /\ mpc' # "open") =>
              (mpc' = "exited" <=> ~(file.exists /\ file.readable))]_vars
    /\ [][(mpc' = "exited" /\ mpc # "exited") => mpc = "open"]_vars
    /\ [][(mpc = "scan" /\ mpc' # "scan") => mpc' \in {"info", "spawn"}]_vars

\* C10 witness: the process has exited at startup and no thread runs.
C10_Witness == mpc = "exited" /\ wpc = "idle" /\ level = log_level["INFO"]

\* What the code's own reading of a content stands for.
Parsed(content) == scan(read_conf(content))

\* The thread has completed an iteration that found the time unchanged,
\* after no failed access, and the file can be read.
Quiet ==
    /\ wpc = "poll" /\ iter = "no_change" /\ ~outage
    /\ file.exists /\ file.readable

\* C11: no edit is lost: when every write has given the file a later
\* modification time and the thread has since completed an iteration
\* without finding anything to do, the threshold is the one the file's
\* content stands for.
C11_NoEditIsLost ==
    (monotone /\ Quiet) => level = Outcome(Parsed(file.content))

\* C12: whenever the startup apply or a reload sets the threshold to a
\* severity S, an INFO record naming S reaches the handler, for every S and
\* every threshold before.
C12_LevelChangeIsLogged ==
    /\ (ReloadDone /\ WFound.kind = "recognized") =>
           \E i \in 1..Len(w_log) :
               /\ w_log[i].levelno = log_level["INFO"]
               /\ w_log[i].msg = "changed_to"
               /\ w_log[i].arg = WFound.level
    /\ (StartupDone /\ MFound.kind = "recognized") =>
           \E i \in 1..Len(m_log) :
               /\ m_log[i].levelno = log_level["INFO"]
               /\ m_log[i].msg = "started_as"
               /\ m_log[i].arg = MFound.level

\* C13: every iteration in which the thread fails to read the modification
\* time or the content hands an ERROR record to the handler, whatever the
\* threshold is.
C13_AccessErrorIsLogged ==
    /\ (wpc = "poll" /\ iter = "mtime_error") =>
           Has(w_log, log_level["ERROR"], "mtime_conflict")
    /\ (wpc = "poll" /\ iter = "read_error") =>
           Has(w_log, log_level["ERROR"], "read_conflict")

\* The watchers that run: the thread of the first call and those of the
\* later calls, all on the one logger getLogger(__name__) gives.
Running(pc) == pc \notin {"idle", "dead"}

Watchers ==
    (IF Running(wpc) THEN 1 ELSE 0)
    + Cardinality({k \in 2..MaxCalls : Running(wpc2[k])})

InitialApply == mpc \in {"set_info", "open", "scan", "info"}

\* C14: however often init_timertng_log is called, the threshold of a
\* logger has one writer at a time: no two watcher threads run on the same
\* logger, and no set_log_level of a call runs on a logger a watcher
\* writes.
C14_OneWriterPerLogger ==
    /\ Watchers <= 1
    /\ InitialApply => Watchers = 0


\* A step of the thread from its read of the file, the operator and the
\* calling thread standing still.
ThreadOpens == wpc = "open" /\ file' = file /\ mpc' = mpc

\* C15: an iteration that reads a modification time different from
\* mod_time stores it before it attempts to read the content; when that
\* read fails the threshold and the stored time stay as they are, and the
\* thread attempts a read again only in an iteration that finds a time
\* different from the stored one.
C15_TimeIsStoredBeforeTheRead ==
    /\ [][(ThreadPolls /\ file.exists /\ file.mtime # mod_time) =>
              /\ mod_time' = file.mtime
              /\ wpc' = "open"
              /\ lines' = <<>> /\ conf_raw' = <<>>
              /\ level' = level]_vars
    /\ [][(ThreadOpens /\ ~(file.exists /\ file.readable)) =>
              /\ level' = level
              /\ mod_time' = mod_time
              /\ lines' = lines
              /\ wpc' = "poll"]_vars
    /\ [][(wpc' = "open" /\ wpc # "open") =>
              (wpc = "poll" /\ file.exists /\ file.mtime # mod_time)]_vars
    /\ [][(ThreadPolls /\ outage /\ file.exists /\ file.mtime = mod_time) =>
              (wpc' = "poll" /\ lines' = <<>> /\ level' = level)]_vars

\* C15 witness: the read of the content has failed and the time that was
\* read before it is the stored one.
C15_Witness ==
    /\ wpc = "poll" /\ iter = "read_error"
    /\ file.exists /\ ~file.readable /\ mod_time = file.mtime
    /\ level # Outcome(Parsed(file.content))

\* C16: the thread changes the threshold only by the one setLevel of an
\* apply, and that write stores the value the apply ends with: between the
\* old threshold and the new one a reader sees no other value.
C16_OneWritePerApply ==
    [][(level' # level /\ wpc # "idle") =>
           /\ wpc \in {"scan", "bad_set", "miss_set"}
           /\ wpc' \in {"info", "bad_msg", "miss_msg"}
           /\ level' = Outcome(WFound)]_vars

\* C16 witness: the thread has written ERROR for level=ERROR and has not
\* logged yet.
C16_Witness ==
    /\ wpc = "info"
    /\ lines = <<Directive("ERROR")>>
    /\ level = log_level["ERROR"]
    /\ w_log = <<>>

\* C17: the thread is started after the handler is attached and after
\* set_log_level has returned; its first step stores the file's
\* modification time without reading the file, logging or writing the
\* threshold; it writes the threshold only in an iteration that found
\* another time and read the file.
C17_StartupIsOrdered ==
    /\ [](wpc # "idle" => (handlers /\ mpc \in {"return", "returned"}))
    /\ [][(wpc = "idle" /\ wpc' # "idle") =>
              (wpc' = "t0" /\ mpc = "spawn" /\ handlers)]_vars
    /\ [][(wpc = "t0" /\ wpc' # "t0") =>
              /\ level' = level
              /\ lines' = <<>> /\ conf_raw' = <<>> /\ w_log' = <<>>
              /\ (wpc' = "poll" => mod_time' = file.mtime)]_vars
    /\ [][(level' # level /\ wpc # "idle") => iter = "read"]_vars

\* C17 witness: the thread has stored the time 1 of the file and has read
\* nothing.
C17_Witness ==
    /\ wpc = "poll" /\ iter = "none"
    /\ mod_time = 1 /\ file.exists /\ file.mtime = 1
    /\ lines = <<>> /\ w_log = <<>>
    /\ mpc \in {"return", "returned"}

\* The records of an apply name the class of what was found.
Classified(lg, found) ==
    /\ Mentions(lg, "bad_option") <=> found.kind = "invalid"
    /\ Mentions(lg, "no_level") <=> found.kind = "missing"

\* C18: set_log_level and a reload leave the same threshold for the same
\* content and class it alike (recognized, invalid value, missing
\* directive), whatever the threshold was before.
C18_BothPathsAgree ==
    /\ StartupDone =>
           /\ level = Outcome(Parsed(m_lines))
           /\ Classified(m_log, Parsed(m_lines))
    /\ ReloadDone =>
           /\ level = Outcome(Parsed(lines))
           /\ Classified(w_log, Parsed(lines))

\* C18 witnesses: level=error was applied at startup, and by a reload.
C18_Witness ==
    /\ StartupDone
    /\ m_lines = <<Directive("error")>>
    /\ level = log_level["INFO"]
    /\ Mentions(m_log, "bad_option")

C18_WitnessReload ==
    /\ ReloadDone
    /\ lines = <<Directive("error")>>
    /\ level = log_level["INFO"]
    /\ Mentions(w_log, "bad_option")

\* C19: a modification time different from mod_time, an earlier one
\* included, makes the thread store it and go on to read the file.
C19_AnyOtherTimeReloads ==
    /\ [][(ThreadPolls /\ file.exists /\ file.mtime < mod_time) =>
              (mod_time' = file.mtime /\ wpc' = "open")]_vars
    /\ [][(ThreadPolls /\ file.exists /\ file.mtime > mod_time) =>
              (mod_time' = file.mtime /\ wpc' = "open")]_vars

\* C19 witness: the thread has found another time and stored 0; the time it
\* had stored before was a later one.
C19_Witness ==
    /\ wpc = "open" /\ iter = "changed"
    /\ mod_time = 0 /\ file.exists /\ file.mtime = 0

=============================================================================
